---- MODULE Spec2Model ----
(***************************************************************************)
(* Model of setuptools/_distutils/cygwinccompiler.py: the runtime-library *)
(* resolver get_msvcr, the compatibility diagnostic check_config_h, the   *)
(* Cygwin detection is_cygwincc, and the CygwinCCompiler/Mingw32CCompiler *)
(* adapters (construction, link, runtime_library_dir_option,              *)
(* _make_out_path, out_extensions).                                       *)
(*                                                                         *)
(* Text that the code inspects character by character (sys.version, file  *)
(* names, the output of "-dumpmachine") is a sequence of one-character    *)
(* strings.  Command lines are sequences of words.  A Python value that   *)
(* may be None is a record [some |-> BOOLEAN, val |-> sequence].           *)
(***************************************************************************)
EXTENDS Integers, Sequences, FiniteSets, TLC

\* ------------------------------------------------------------------ bounds
\* longest list of export symbols a link call is given
MaxExports == 2
\* longest list of runtime library directories a link call is given
MaxRpath == 1

\* ------------------------------------------------------------------ text
None == [some |-> FALSE, val |-> <<>>]
Some(v) == [some |-> TRUE, val |-> v]

\* Python's "x or []" for a list that may be None
OrEmpty(x) == IF x.some THEN x.val ELSE <<>>

\* all sequences over S of length at most n
SeqsUpTo(S, n) == UNION {[1..k -> S] : k \in 0..n}

Digit == {"0", "1", "2", "3", "4", "5", "6", "7", "8", "9"}

DigitValue(c) ==
    CASE c = "0" -> 0 [] c = "1" -> 1 [] c = "2" -> 2 [] c = "3" -> 3
      [] c = "4" -> 4 [] c = "5" -> 5 [] c = "6" -> 6 [] c = "7" -> 7
      [] c = "8" -> 8 [] c = "9" -> 9

\* int() of a string of decimal digits
RECURSIVE ParseInt(_)
ParseInt(s) ==
    IF s = <<>> THEN 0
    ELSE 10 * ParseInt(SubSeq(s, 1, Len(s) - 1)) + DigitValue(s[Len(s)])

\* s[i .. i+Len(p)-1] = p
MatchesAt(s, p, i) ==
    /\ i >= 1
    /\ i + Len(p) - 1 <= Len(s)
    /\ \A k \in 1..Len(p) : s[i + k - 1] = p[k]

\* Python's "p in s"
Contains(s, p) == \E i \in 1..(Len(s) + 1) : MatchesAt(s, p, i)

EndsWith(s, p) == Len(p) <= Len(s) /\ MatchesAt(s, p, Len(s) - Len(p) + 1)

Whitespace == {" ", "\n", "\t", "\r"}

\* bytes.strip(): leading and trailing whitespace removed
RECURSIVE Strip(_)
Strip(s) ==
    IF s = <<>> THEN s
    ELSE IF s[1] \in Whitespace THEN Strip(Tail(s))
    ELSE IF s[Len(s)] \in Whitespace THEN Strip(SubSeq(s, 1, Len(s) - 1))
    ELSE s

UpperLetters == <<"A", "B", "C", "D", "E", "F", "G", "H", "I", "J", "K", "L", "M",
                  "N", "O", "P", "Q", "R", "S", "T", "U", "V", "W", "X", "Y", "Z">>
LowerLetters == <<"a", "b", "c", "d", "e", "f", "g", "h", "i", "j", "k", "l", "m",
                  "n", "o", "p", "q", "r", "s", "t", "u", "v", "w", "x", "y", "z">>

LowerChar(c) ==
    IF \E i \in 1..Len(UpperLetters) : UpperLetters[i] = c
    THEN LowerLetters[CHOOSE i \in 1..Len(UpperLetters) : UpperLetters[i] = c]
    ELSE c

\* str.lower()
Lower(s) == [i \in 1..Len(s) |-> LowerChar(s[i])]

\* ------------------------------------------------------------------ resolver
\* _msvcr_lookup without its closing entry for 2000
_msvcr_lookup_NoSentinel ==
    [k \in {1300, 1310, 1400, 1500, 1600, 1700, 1800, 1900} |->
        CASE k = 1300 -> [undefined |-> FALSE, libs |-> <<"msvcr70">>]
          [] k = 1310 -> [undefined |-> FALSE, libs |-> <<"msvcr71">>]
          [] k = 1400 -> [undefined |-> FALSE, libs |-> <<"msvcr80">>]
          [] k = 1500 -> [undefined |-> FALSE, libs |-> <<"msvcr90">>]
          [] k = 1600 -> [undefined |-> FALSE, libs |-> <<"msvcr100">>]
          [] k = 1700 -> [undefined |-> FALSE, libs |-> <<"msvcr110">>]
          [] k = 1800 -> [undefined |-> FALSE, libs |-> <<"msvcr120">>]
          [] k = 1900 -> [undefined |-> FALSE, libs |-> <<"vcruntime140">>]]

\* the keys of _msvcr_lookup and what each maps to; undefined marks
\* RangeMap.undefined_value
_msvcr_lookup ==
    [k \in {1300, 1310, 1400, 1500, 1600, 1700, 1800, 1900, 2000} |->
        CASE k = 1300 -> [undefined |-> FALSE, libs |-> <<"msvcr70">>]
          [] k = 1310 -> [undefined |-> FALSE, libs |-> <<"msvcr71">>]
          [] k = 1400 -> [undefined |-> FALSE, libs |-> <<"msvcr80">>]
          [] k = 1500 -> [undefined |-> FALSE, libs |-> <<"msvcr90">>]
          [] k = 1600 -> [undefined |-> FALSE, libs |-> <<"msvcr100">>]
          [] k = 1700 -> [undefined |-> FALSE, libs |-> <<"msvcr110">>]
          [] k = 1800 -> [undefined |-> FALSE, libs |-> <<"msvcr120">>]
          [] k = 1900 -> [undefined |-> FALSE, libs |-> <<"vcruntime140">>]
          [] k = 2000 -> [undefined |-> TRUE, libs |-> <<>>]]

\* RangeMap.left(...).__getitem__: the keys are scanned in descending order
\* and the first key with item >= key is taken; no such key, or a key that
\* maps to undefined_value, is a KeyError
RangeMapLeftGet(map, item) ==
    LET matches == {k \in DOMAIN map : item >= k}
    IN  IF matches = {} THEN [found |-> FALSE, libs |-> <<>>]
        ELSE LET key == CHOOSE k \in matches : \A j \in matches : j <= k
             IN  IF map[key].undefined THEN [found |-> FALSE, libs |-> <<>>]
                 ELSE [found |-> TRUE, libs |-> map[key].libs]

MscMarker == <<"M", "S", "C", " ", "v", ".">>

\* re.search(r'MSC v\.(\d{4})', version): the positions where the pattern
\* matches
MscMatches(version) ==
    {i \in 1..Len(version) :
        /\ MatchesAt(version, MscMarker, i)
        /\ i + 9 <= Len(version)
        /\ \A k \in 6..9 : version[i + k] \in Digit}

\* what a call returns or raises.  kind is "list" (a list of library names),
\* "none" (Python's None) or "raise"
ReturnList(libs) == [kind |-> "list", libs |-> libs, exc |-> "-"]
ReturnNone == [kind |-> "none", libs |-> <<>>, exc |-> "-"]
Raise(exc) == [kind |-> "raise", libs |-> <<>>, exc |-> exc]

\* get_msvcr that treats a missing marker like an unknown version
get_msvcr_RaisesWithoutMarker(version) ==
    LET m == MscMatches(version)
    IN  IF m = {} THEN Raise("ValueError")
        ELSE LET first == CHOOSE i \in m : \A j \in m : i <= j
                 msc_ver == ParseInt(SubSeq(version, first + 6, first + 9))
                 got == RangeMapLeftGet(_msvcr_lookup, msc_ver)
             IN  IF got.found THEN ReturnList(got.libs) ELSE Raise("ValueError")

get_msvcr(version) ==
    LET m == MscMatches(version)
    IN  IF m = {} THEN ReturnNone
        ELSE LET first == CHOOSE i \in m : \A j \in m : i <= j
                 msc_ver == ParseInt(SubSeq(version, first + 6, first + 9))
                 got == RangeMapLeftGet(_msvcr_lookup, msc_ver)
             IN  IF got.found THEN ReturnList(got.libs) ELSE Raise("ValueError")

\* ------------------------------------------------------------------ os.path
\* os.path is posixpath under a Cygwin interpreter and ntpath under a
\* native Windows interpreter.  Drive letters and UNC prefixes are left out:
\* no modelled name has one.
Flavours == {"posix", "nt"}

Seps(f) == IF f = "nt" THEN {"\\", "/"} ELSE {"/"}
Sep(f) == IF f = "nt" THEN "\\" ELSE "/"

\* index of the last separator of p, 0 if it has none
LastSep(f, p) ==
    LET at == {i \in 1..Len(p) : p[i] \in Seps(f)}
    IN  IF at = {} THEN 0 ELSE CHOOSE i \in at : \A j \in at : j <= i

RECURSIVE RStripSeps(_, _)
RStripSeps(f, p) ==
    IF p # <<>> /\ p[Len(p)] \in Seps(f)
    THEN RStripSeps(f, SubSeq(p, 1, Len(p) - 1))
    ELSE p

\* os.path.basename
basename(f, p) == SubSeq(p, LastSep(f, p) + 1, Len(p))

\* os.path.dirname: the head, without its trailing separators unless it is
\* nothing but separators
dirname(f, p) ==
    LET head == SubSeq(p, 1, LastSep(f, p))
    IN  IF RStripSeps(f, head) = <<>> THEN head ELSE RStripSeps(f, head)

\* os.path.splitext (genericpath._splitext): the extension starts at the
\* last dot of the last component, unless only dots precede it there
splitext(f, p) ==
    LET sepIndex == LastSep(f, p)
        dots == {i \in 1..Len(p) : p[i] = "."}
        dotIndex == IF dots = {} THEN 0 ELSE CHOOSE i \in dots : \A j \in dots : j <= i
    IN  IF /\ dotIndex > sepIndex
           /\ \E k \in (sepIndex + 1)..(dotIndex - 1) : p[k] # "."
        THEN <<SubSeq(p, 1, dotIndex - 1), SubSeq(p, dotIndex, Len(p))>>
        ELSE <<p, <<>>>>

\* os.path.join of two parts
join(f, a, b) ==
    IF b # <<>> /\ b[1] \in Seps(f) THEN b
    ELSE IF a = <<>> \/ a[Len(a)] \in Seps(f) THEN a \o b
    ELSE a \o <<Sep(f)>> \o b

\* os.path.normcase: the identity on posix; on nt every "/" becomes "\"
\* and the whole name is lowercased
normcase(f, p) ==
    IF f = "nt"
    THEN Lower([i \in 1..Len(p) |-> IF p[i] = "/" THEN "\\" ELSE p[i]])
    ELSE p

isabs(f, p) == p # <<>> /\ p[1] \in Seps(f)

\* ------------------------------------------------------------------ diagnostic
CONFIG_H_OK == "ok"
CONFIG_H_NOTOK == "not ok"
CONFIG_H_UNCERTAIN == "uncertain"

GCC == <<"G", "C", "C">>
Clang == <<"C", "l", "a", "n", "g">>
GNUC == <<"_", "_", "G", "N", "U", "C", "_", "_">>

\* what pathlib.Path(fn).read_text(encoding='utf-8') can do: return the
\* text of pyconfig.h, raise an OSError (missing file, no permission), or
\* raise UnicodeDecodeError, which is a ValueError and no OSError, when the
\* file's bytes are not UTF-8
HeaderWithGnuc == <<"#", "i", "f", "d", "e", "f", " ", "_", "_", "G", "N", "U", "C", "_", "_", "\n">>
HeaderWithoutGnuc == <<"#", "i", "f", "d", "e", "f", " ", "_", "M", "S", "C", "_", "V", "E", "R", "\n">>
ReadText(text) == [kind |-> "text", text |-> text]
ReadFails(exc) == [kind |-> exc, text |-> <<>>]
ReadOutcomes ==
    {ReadText(HeaderWithGnuc), ReadText(HeaderWithoutGnuc),
     ReadFails("OSError"), ReadFails("UnicodeDecodeError")}

Status(status, details) == [raised |-> "-", status |-> status, details |-> details]
Raised(exc) == [raised |-> exc, status |-> "-", details |-> "-"]

\* check_config_h(): read is consulted only when sys.version mentions
\* neither GCC nor Clang; only OSError is caught
check_config_h(version, read) ==
    IF Contains(version, GCC) THEN Status(CONFIG_H_OK, "sys.version mentions 'GCC'")
    ELSE IF Contains(version, Clang)
    THEN Status(CONFIG_H_OK, "sys.version mentions 'Clang'")
    ELSE IF read.kind = "text"
    THEN IF Contains(read.text, GNUC)
         THEN Status(CONFIG_H_OK, "mentions '__GNUC__'")
         ELSE Status(CONFIG_H_NOTOK, "does not mention '__GNUC__'")
    ELSE IF read.kind = "OSError"
    THEN Status(CONFIG_H_UNCERTAIN, "couldn't read")
    ELSE Raised(read.kind)

\* ------------------------------------------------------------------ is_cygwincc
Cygwin == <<"c", "y", "g", "w", "i", "n">>

\* what check_output(shlex.split(cc) + ['-dumpmachine']) can do: return the
\* compiler's output, or raise when the compiler cannot be run
DumpOutput(out) == [kind |-> "output", out |-> out]
DumpFails == [kind |-> "CalledProcessError", out |-> <<>>]
\* the compiler is not run at all
NoDump == [kind |-> "not run", out |-> <<>>]
DumpOutcomes ==
    {DumpOutput(<<"x", "8", "6", "_", "6", "4", "-", "p", "c", "-", "c", "y", "g", "w", "i", "n", "\n">>), DumpOutput(<<"x", "8", "6", "_", "6", "4", "-", "w", "6", "4", "-", "m", "i", "n", "g", "w", "3", "2", "\n">>),
     DumpOutput(<<"c", "y", "g", "w", "i", "n", "-", "n", "o", "n", "e", "-", "e", "l", "f", "\n">>), DumpFails}

\* is_cygwincc that compares the output as the compiler wrote it, its
\* trailing newline included
is_cygwincc_NoStrip(out_string) == EndsWith(out_string, Cygwin)

is_cygwincc(out_string) == EndsWith(Strip(out_string), Cygwin)

\* ------------------------------------------------------------------ adapters
\* os.environ as far as the adapter reads it; a value is the list of words
\* of the variable (shlex.split), None when the variable is unset
Environs ==
    {[CC |-> None, CXX |-> None],
     [CC |-> Some(<<"x86_64-w64-mingw32-gcc">>), CXX |-> Some(<<"x86_64-w64-mingw32-g++">>)],
     [CC |-> Some(<<"gcc", "-mcygwin">>), CXX |-> None]}

PyconfigWarning == "Python's pyconfig.h doesn't seem to support your compiler."
_runtime_library_dirs_msg == "Unable to set runtime library search path on Windows"

NoExecutables ==
    [compiler |-> <<>>, compiler_so |-> <<>>, compiler_cxx |-> <<>>,
     linker_exe |-> <<>>, linker_so |-> <<>>]

NoAdapter ==
    [compiler_type |-> "none", cc |-> <<>>, cxx |-> <<>>, linker_dll |-> <<>>,
     executables |-> NoExecutables, dll_libraries |-> None]

Constructed(raised, warnings, adapter) ==
    [raised |-> raised, warnings |-> warnings, adapter |-> adapter]

\* CygwinCCompiler.__init__
CygwinCCompiler_init(version, environ, read) ==
    LET chk == check_config_h(version, read)
        warnings == IF chk.raised = "-" /\ chk.status # CONFIG_H_OK
                    THEN <<PyconfigWarning>> ELSE <<>>
        cc == IF environ.CC.some THEN environ.CC.val ELSE <<"gcc">>
        cxx == IF environ.CXX.some THEN environ.CXX.val ELSE <<"g++">>
        linker_dll == cc
        shared_option == "-shared"
        msvcr == get_msvcr(version)
    IN  IF chk.raised # "-" THEN Constructed(chk.raised, <<>>, NoAdapter)
        ELSE IF msvcr.kind = "raise" THEN Constructed(msvcr.exc, warnings, NoAdapter)
        ELSE Constructed("-", warnings,
                [compiler_type |-> "cygwin",
                 cc |-> cc,
                 cxx |-> cxx,
                 linker_dll |-> linker_dll,
                 executables |->
                    [compiler |-> cc \o <<"-mcygwin", "-O", "-Wall">>,
                     compiler_so |-> cc \o <<"-mcygwin", "-mdll", "-O", "-Wall">>,
                     compiler_cxx |-> cxx \o <<"-mcygwin", "-O", "-Wall">>,
                     linker_exe |-> cc \o <<"-mcygwin">>,
                     linker_so |-> linker_dll \o <<"-mcygwin", shared_option>>],
                 dll_libraries |-> IF msvcr.kind = "list" THEN Some(msvcr.libs) ELSE None])

\* Mingw32CCompiler.__init__
Mingw32CCompiler_init(version, environ, read, dump) ==
    LET base == CygwinCCompiler_init(version, environ, read)
        self == base.adapter
        shared_option == "-shared"
    IN  IF base.raised # "-" THEN base
        ELSE IF dump.kind # "output" THEN Constructed(dump.kind, base.warnings, NoAdapter)
        ELSE IF is_cygwincc(dump.out)
        THEN Constructed("CCompilerError", base.warnings, NoAdapter)
        ELSE Constructed("-", base.warnings,
                [self EXCEPT
                    !.compiler_type = "mingw32",
                    !.executables =
                        [compiler |-> self.cc \o <<"-O", "-Wall">>,
                         compiler_so |-> self.cc \o <<"-mdll", "-O", "-Wall">>,
                         compiler_cxx |-> self.cxx \o <<"-O", "-Wall">>,
                         linker_exe |-> self.cc,
                         linker_so |-> self.linker_dll \o <<shared_option>>]])

\* ------------------------------------------------------------------ link
EXECUTABLE == "executable"
SHARED_LIBRARY == "shared_library"

\* runtime_library_dir_option of the adapter's class: CygwinCCompiler warns
\* and returns no option, Mingw32CCompiler raises
runtime_library_dir_option(self, dir) ==
    IF self.compiler_type = "mingw32"
    THEN [warnings |-> <<>>, raised |-> "DistutilsPlatformError", opts |-> <<>>]
    ELSE [warnings |-> <<_runtime_library_dirs_msg>>, raised |-> "-", opts |-> <<>>]

\* gen_lib_options, as far as runtime_library_dirs go: one call of
\* runtime_library_dir_option per directory, in order, the options collected
RECURSIVE GenRuntimeOpts(_, _)
GenRuntimeOpts(self, dirs) ==
    IF dirs = <<>> THEN [warnings |-> <<>>, raised |-> "-", opts |-> <<>>]
    ELSE LET one == runtime_library_dir_option(self, Head(dirs))
             rest == GenRuntimeOpts(self, Tail(dirs))
         IN  IF one.raised # "-" THEN one
             ELSE [warnings |-> one.warnings \o rest.warnings,
                   raised |-> rest.raised,
                   opts |-> IF rest.raised = "-" THEN one.opts \o rest.opts ELSE <<>>]

NoCommand ==
    [spawned |-> FALSE, linker |-> <<>>, preargs |-> <<>>, objects |-> <<>>,
     runtime_opts |-> <<>>, libraries |-> <<>>, output_filename |-> <<>>]

\* UnixCCompiler.link: the library options are generated, then the linker
\* is spawned; spawn_ok is whether the linker process succeeds
UnixCCompiler_link(self, passed, spawn_ok) ==
    LET gen == GenRuntimeOpts(self, OrEmpty(passed.runtime_library_dirs))
    IN  IF gen.raised # "-"
        THEN [warnings |-> gen.warnings, raised |-> gen.raised, command |-> NoCommand]
        ELSE [warnings |-> gen.warnings,
              raised |-> IF spawn_ok THEN "-" ELSE "LinkError",
              command |->
                [spawned |-> TRUE,
                 linker |-> IF passed.target_desc = EXECUTABLE
                            THEN self.executables.linker_exe
                            ELSE self.executables.linker_so,
                 preargs |-> passed.extra_preargs,
                 objects |-> passed.objects,
                 runtime_opts |-> gen.opts,
                 libraries |-> passed.libraries,
                 output_filename |-> passed.output_filename]]

NoDefFile == [written |-> FALSE, name |-> <<>>, contents |-> <<>>]

NotPassed ==
    [called |-> FALSE, target_desc |-> "-", objects |-> <<>>, output_filename |-> <<>>,
     libraries |-> <<>>, runtime_library_dirs |-> None, export_symbols |-> None,
     debug |-> FALSE, extra_preargs |-> <<>>]

LIBRARY == <<"L", "I", "B", "R", "A", "R", "Y", " ">>
EXPORTS == <<"E", "X", "P", "O", "R", "T", "S">>
DefExt == <<".", "d", "e", "f">>

\* whether link takes the branch that generates the def-file
WantsDefFile(self, a) ==
    a.export_symbols.some /\ (a.target_desc # EXECUTABLE \/ self.linker_dll = <<"gcc">>)

\* "-s" appended only when linking a debug build
StripArgs_Inverted(extra_preargs, debug) ==
    IF debug THEN extra_preargs \o <<"-s">> ELSE extra_preargs

\* the pre-link arguments handed on: "-s" is appended unless debug
StripArgs(extra_preargs, debug) ==
    IF ~debug THEN extra_preargs \o <<"-s">> ELSE extra_preargs

\* the def-file's name: the output's base name without its extension,
\* ".def" added, in the directory of the first object file
DefFileName(f, objects, output_filename) ==
    LET temp_dir == dirname(f, objects[1])
        dll_name == splitext(f, basename(f, output_filename))[1]
    IN  join(f, temp_dir, dll_name \o DefExt)

\* the def-file named after the library without its extension in the
\* LIBRARY line too
DefFileContents_NoExtension(f, output_filename, export_symbols) ==
    <<LIBRARY \o splitext(f, basename(f, output_filename))[1], EXPORTS>> \o export_symbols

\* the lines handed to write_file
DefFileContents(f, output_filename, export_symbols) ==
    <<LIBRARY \o basename(f, output_filename), EXPORTS>> \o export_symbols

\* CygwinCCompiler.link.  a holds the caller's arguments; f is the os.path
\* flavour.  The result holds the warnings in order, what was raised, the
\* def-file handed to write_file, the arguments handed to UnixCCompiler.link
\* and the linker command it spawned.
\* self.execute runs write_file at once: dry_run is 0, the constructor's
\* default.
link(self, f, a) ==
    LET extra_preargs == OrEmpty(a.extra_preargs)
        libraries == OrEmpty(a.libraries)
        objects == OrEmpty(a.objects)
        warned == IF OrEmpty(a.runtime_library_dirs) # <<>>
                  THEN <<_runtime_library_dirs_msg>> ELSE <<>>
        def_file == DefFileName(f, objects, a.output_filename)
        contents == DefFileContents(f, a.output_filename, a.export_symbols.val)
        passed ==
            [called |-> TRUE,
             target_desc |-> a.target_desc,
             objects |-> IF WantsDefFile(self, a) THEN Append(objects, def_file)
                         ELSE objects,
             output_filename |-> a.output_filename,
             libraries |-> libraries \o self.dll_libraries.val,
             runtime_library_dirs |-> a.runtime_library_dirs,
             export_symbols |-> None,
             debug |-> a.debug,
             extra_preargs |-> StripArgs(extra_preargs, a.debug)]
        under == UnixCCompiler_link(self, passed, a.spawn_ok)
    IN  IF ~self.dll_libraries.some
        THEN \* libraries.extend(None) raises
             [warnings |-> warned, raised |-> "TypeError", def_file |-> NoDefFile,
              passed |-> NotPassed, command |-> NoCommand]
        ELSE IF WantsDefFile(self, a) /\ objects = <<>>
        THEN \* objects[0] of an empty list raises
             [warnings |-> warned, raised |-> "IndexError", def_file |-> NoDefFile,
              passed |-> NotPassed, command |-> NoCommand]
        ELSE [warnings |-> warned \o under.warnings,
              raised |-> under.raised,
              def_file |-> IF WantsDefFile(self, a)
                           THEN [written |-> TRUE, name |-> def_file, contents |-> contents]
                           ELSE NoDefFile,
              passed |-> passed,
              command |-> under.command]

\* ------------------------------------------------------------------ compile
obj_extension == <<".", "o">>
RcExt == <<".", "r", "c">>
ResExt == <<".", "r", "e", "s">>

\* UnixCCompiler.src_extensions
SrcExtensions == {<<".", "c">>, <<".", "C">>, <<".", "c", "c">>, <<".", "c", "x", "x">>, <<".", "c", "p", "p">>, <<".", "m">>}

\* CCompiler.out_extensions: every source extension maps to obj_extension
CCompiler_out_extensions == [ext \in SrcExtensions |-> obj_extension]

\* CygwinCCompiler.out_extensions: the base mapping, and '.res' and '.rc'
\* mapped to themselves followed by obj_extension
out_extensions ==
    [ext \in SrcExtensions \cup {ResExt, RcExt} |->
        IF ext \in {ResExt, RcExt} THEN ext \o obj_extension
        ELSE CCompiler_out_extensions[ext]]

PathResult(raised, path) == [raised |-> raised, path |-> path]

\* CCompiler._make_relative: a leading separator is dropped
_make_relative(f, base) == IF isabs(f, base) THEN Tail(base) ELSE base

\* CCompiler._make_out_path
CCompiler_make_out_path(f, output_dir, strip_dir, src_name) ==
    LET parts == splitext(f, src_name)
        base == _make_relative(f, parts[1])
        ext == parts[2]
    IN  IF ext \notin DOMAIN out_extensions THEN PathResult("UnknownFileError", <<>>)
        ELSE PathResult("-",
                join(f, output_dir,
                     (IF strip_dir THEN basename(f, base) ELSE base) \o out_extensions[ext]))

\* _make_out_path that hands the source name on as it is
_make_out_path_NoNormcase(f, output_dir, strip_dir, src_name) ==
    CCompiler_make_out_path(f, output_dir, strip_dir, src_name)

\* CygwinCCompiler._make_out_path
_make_out_path(f, output_dir, strip_dir, src_name) ==
    LET norm_src_name == normcase(f, src_name)
    IN  CCompiler_make_out_path(f, output_dir, strip_dir, norm_src_name)

\* CygwinCCompiler._compile: the command handed to spawn; spawn_ok is
\* whether the process succeeds
_compile(self, obj, src, ext, cc_args, extra_postargs, spawn_ok) ==
    [raised |-> IF spawn_ok THEN "-" ELSE "CompileError",
     command |->
        IF ext \in {RcExt, ResExt}
        THEN [tool |-> <<"windres">>, args |-> <<>>, input |-> src, output |-> obj,
              postargs |-> <<>>]
        ELSE [tool |-> self.executables.compiler_so, args |-> cc_args, input |-> src,
              output |-> obj, postargs |-> extra_postargs]]

\* ------------------------------------------------------------------ inputs
DigitChar(k) == CHOOSE c \in Digit : DigitValue(c) = k

\* a compiler version written as the interpreter writes it: four digits
Digits4(n) ==
    <<DigitChar((n \div 1000) % 10), DigitChar((n \div 100) % 10),
      DigitChar((n \div 10) % 10), DigitChar(n % 10)>>

\* sys.version of an interpreter built by MSVC version n
MscVersion(n) == <<"3", " ", "[">> \o MscMarker \o Digits4(n) \o <<" ", "6", "4", "]">>

GccVersion == <<"3", " ", "[", "G", "C", "C", " ", "1", "2", "]">>
ClangVersion == <<"3", " ", "[", "C", "l", "a", "n", "g", " ", "1", "3", "]">>

\* sys.version strings without the marker: GCC and Clang builds, three
\* digits only, lower case, no dot, nothing at all
UnmarkedVersions ==
    {GccVersion, ClangVersion, <<"[", "M", "S", "C", " ", "v", ".", "1", "9", "0", "]">>, <<"[", "m", "s", "c", " ", "v", ".", "1", "9", "0", "0", "]">>, <<"[", "M", "S", "C", " ", "v", "1", "9", "0", "0", "]">>, <<>>}

\* versions the adapters are constructed under: a GCC build, a known MSVC
\* build and an MSVC build beyond the table
AdapterVersions == {GccVersion, MscVersion(1916), MscVersion(2000)}

\* every version code around the table, and the ends of four digits
VersionCodes == (1290..2010) \cup {0, 9999}

ResolverVersions ==
    UnmarkedVersions
        \cup {MscVersion(n) : n \in VersionCodes}
        \cup {GccVersion \o MscVersion(1929), MscVersion(1900) \o <<"0">>,
              <<"[", "M", "S", "C", " ", "v", ".", "1", "9", "0", "]">> \o MscVersion(1400)}

Symbols == {<<"f", "o", "o">>, <<"b", "a", "r">>}
RuntimeDirs == {"/opt/lib"}

ObjectLists ==
    {None, Some(<<>>), Some(<<<<"a", ".", "o">>>>), Some(<<<<"t", "/", "a", ".", "o">>, <<"b", ".", "o">>>>)}
OutputFilenames == {<<"o", "/", "m", "y", "l", "i", "b", ".", "d", "l", "l">>, <<"d", "\\", "p", ".", "x", ".", "e", "x", "e">>}

LinkArgs ==
    [target_desc : {SHARED_LIBRARY, EXECUTABLE},
     objects : ObjectLists,
     output_filename : OutputFilenames,
     libraries : {None, Some(<<"m">>)},
     runtime_library_dirs : {None} \cup {Some(d) : d \in SeqsUpTo(RuntimeDirs, MaxRpath)},
     export_symbols : {None} \cup {Some(e) : e \in SeqsUpTo(Symbols, MaxExports)},
     debug : BOOLEAN,
     extra_preargs : {None, Some(<<"-v">>)},
     spawn_ok : BOOLEAN]

SrcNames ==
    {<<"F", "O", "O", ".", "R", "C">>, <<"f", "o", "o", ".", "r", "c">>, <<"F", "o", "o", ".", "r", "c">>, <<"D", "i", "r", "/", "F", "o", "o", ".", "c">>, <<"d", "i", "r", "/", "f", "o", "o", ".", "c">>,
     <<"/", "S", "r", "c", "/", "X", ".", "R", "E", "S">>, <<"x", ".", "C">>, <<"a", ".", "t", "x", "t">>, <<"D", "\\", "r", ".", "R", "c">>}
OutputDirs == {<<>>, <<"O", "u", "t">>}

\* ------------------------------------------------------------------ state
VARIABLES
    sys_version,    \* the interpreter's sys.version
    os_path,        \* the flavour of the interpreter's os.path
    adapter,        \* the compiler object the build holds, NoAdapter before any
    last            \* the call in progress: its arguments and what it did

vars == <<sys_version, os_path, adapter, last>>

Idle == [op |-> "idle"]

InitWith(versions) ==
    /\ sys_version \in versions
    /\ os_path \in Flavours
    /\ adapter = NoAdapter
    /\ last = Idle

Init == InitWith(AdapterVersions)

InitResolver == InitWith(ResolverVersions)

\* CygwinCCompiler(): the object replaces the build's adapter unless the
\* constructor raised
NewCygwinCCompiler ==
    /\ last = Idle
    /\ \E environ \in Environs, read \in ReadOutcomes :
        LET r == CygwinCCompiler_init(sys_version, environ, read)
        IN  /\ adapter' = IF r.raised = "-" THEN r.adapter ELSE adapter
            /\ last' = [op |-> "__init__", class |-> "CygwinCCompiler",
                        environ |-> environ, read |-> read, dump |-> NoDump,
                        raised |-> r.raised, warnings |-> r.warnings,
                        made |-> r.adapter]
    /\ UNCHANGED <<sys_version, os_path>>

\* Mingw32CCompiler()
NewMingw32CCompiler ==
    /\ last = Idle
    /\ \E environ \in Environs, read \in ReadOutcomes, dump \in DumpOutcomes :
        LET r == Mingw32CCompiler_init(sys_version, environ, read, dump)
        IN  /\ adapter' = IF r.raised = "-" THEN r.adapter ELSE adapter
            /\ last' = [op |-> "__init__", class |-> "Mingw32CCompiler",
                        environ |-> environ, read |-> read, dump |-> dump,
                        raised |-> r.raised, warnings |-> r.warnings,
                        made |-> r.adapter]
    /\ UNCHANGED <<sys_version, os_path>>

\* adapter.link(...)
Link ==
    /\ last = Idle
    /\ adapter # NoAdapter
    /\ \E a \in LinkArgs :
        last' = [op |-> "link", args |-> a, result |-> link(adapter, os_path, a)]
    /\ UNCHANGED <<sys_version, os_path, adapter>>

\* adapter._make_out_path(...)
MakeOutPath ==
    /\ last = Idle
    /\ adapter # NoAdapter
    /\ \E output_dir \in OutputDirs, strip_dir \in BOOLEAN, src_name \in SrcNames :
        last' = [op |-> "_make_out_path", output_dir |-> output_dir,
                 strip_dir |-> strip_dir, src_name |-> src_name,
                 result |-> _make_out_path(os_path, output_dir, strip_dir, src_name)]
    /\ UNCHANGED <<sys_version, os_path, adapter>>

\* adapter._compile(...) of a source, with the extension its caller split
\* off the source name and the object path _make_out_path derived
Compile ==
    /\ last = Idle
    /\ adapter # NoAdapter
    /\ \E src \in SrcNames, spawn_ok \in BOOLEAN :
        LET out == _make_out_path(os_path, <<>>, FALSE, src)
        IN  /\ out.raised = "-"
            /\ last' = [op |-> "_compile", src |-> src,
                        result |-> _compile(adapter, out.path, src,
                                            splitext(os_path, src)[2],
                                            <<"-I.">>, <<>>, spawn_ok)]
    /\ UNCHANGED <<sys_version, os_path, adapter>>

\* get_msvcr()
GetMsvcr ==
    /\ last = Idle
    /\ last' = [op |-> "get_msvcr", result |-> get_msvcr(sys_version)]
    /\ UNCHANGED <<sys_version, os_path, adapter>>

\* check_config_h()
CheckConfigH ==
    /\ last = Idle
    /\ \E read \in ReadOutcomes :
        last' = [op |-> "check_config_h", read |-> read,
                 result |-> check_config_h(sys_version, read)]
    /\ UNCHANGED <<sys_version, os_path, adapter>>

\* is_cygwincc(cc), for a compiler that could be run
IsCygwincc ==
    /\ last = Idle
    /\ \E dump \in DumpOutcomes :
        /\ dump.kind = "output"
        /\ last' = [op |-> "is_cygwincc", out |-> dump.out,
                    result |-> is_cygwincc(dump.out)]
    /\ UNCHANGED <<sys_version, os_path, adapter>>

\* the call returns to the build
Return ==
    /\ last # Idle
    /\ last' = Idle
    /\ UNCHANGED <<sys_version, os_path, adapter>>

Next ==
    \/ NewCygwinCCompiler
    \/ NewMingw32CCompiler
    \/ Link
    \/ MakeOutPath
    \/ Compile
    \/ GetMsvcr
    \/ CheckConfigH
    \/ IsCygwincc
    \/ Return

Spec == Init /\ [][Next]_vars

\* the module's functions alone, over every modelled sys.version
NextResolver ==
    \/ GetMsvcr
    \/ CheckConfigH
    \/ IsCygwincc
    \/ Return

SpecResolver == InitResolver /\ [][NextResolver]_vars


\* ================================================================== claims

\* ------------------------------------------------------------------ C1
\* the libraries the table gives for a version code, written out
LibrariesOf(v) ==
    IF v < 1300 \/ v >= 2000 THEN <<>>
    ELSE IF v < 1310 THEN <<"msvcr70">>
    ELSE IF v < 1400 THEN <<"msvcr71">>
    ELSE IF v < 1500 THEN <<"msvcr80">>
    ELSE IF v < 1600 THEN <<"msvcr90">>
    ELSE IF v < 1700 THEN <<"msvcr100">>
    ELSE IF v < 1800 THEN <<"msvcr110">>
    ELSE IF v < 1900 THEN <<"msvcr120">>
    ELSE <<"vcruntime140">>

\* the runtime libraries resolved for the versions adapters are built under
ResolvedLibraries ==
    IF sys_version = MscVersion(1916) THEN LibrariesOf(1916) ELSE <<>>

\* C1: on a constructed adapter every link call hands UnixCCompiler.link the
\* caller's libraries (none when the caller gave None) followed by the
\* runtime libraries resolved at construction, and link does not fail on
\* the resolver's result, a missing marker included.
C1_LinkAppendsRuntimeLibraries ==
    last.op = "link" =>
        /\ last.result.raised # "TypeError"
        /\ last.result.passed.called
            => last.result.passed.libraries
                    = OrEmpty(last.args.libraries) \o ResolvedLibraries

\* ------------------------------------------------------------------ C2
\* C2: for every version v with 1300 <= v < 2000 get_msvcr returns exactly
\* the libraries of the greatest table boundary <= v, and for every
\* v >= 2000 it raises ValueError and returns nothing.
C2_LookupByGreatestBoundary ==
    last.op = "get_msvcr" =>
        \A v \in VersionCodes :
            sys_version = MscVersion(v) =>
                /\ (1300 <= v /\ v < 2000) => last.result = ReturnList(LibrariesOf(v))
                /\ v >= 2000 => last.result = Raise("ValueError")

\* get_msvcr was called for a version inside a range and answered with that
\* range's library
C2_Witness ==
    /\ last.op = "get_msvcr"
    /\ sys_version = MscVersion(1399)
    /\ last.result = ReturnList(<<"msvcr71">>)

\* ------------------------------------------------------------------ C8
\* C8: for every sys.version without the 'MSC v.' marker and four digits,
\* get_msvcr raises nothing and returns "no constraint": None, which names
\* no library.
C8_NoMarkerNoConstraint ==
    (last.op = "get_msvcr" /\ sys_version \in UnmarkedVersions)
        => /\ last.result.kind = "none"
           /\ last.result.exc = "-"
           /\ last.result.libs = <<>>

\* get_msvcr was called under a GCC-built interpreter and returned None
C8_Witness ==
    /\ last.op = "get_msvcr"
    /\ sys_version = GccVersion
    /\ last.result = ReturnNone

\* ------------------------------------------------------------------ C3
\* b is the last component of path p: p ends with b, b holds no separator
\* and a separator, or nothing, precedes it
IsLastComponent(b, p) ==
    /\ EndsWith(p, b)
    /\ \A i \in 1..Len(b) : b[i] \notin Seps(os_path)
    /\ Len(b) < Len(p) => p[Len(p) - Len(b)] \in Seps(os_path)

\* C3: whenever link generates a def-file, its lines are "LIBRARY " and
\* the base name of the output file with its extension, then "EXPORTS",
\* then the export symbols as given: each once, in the caller's order,
\* nothing added or dropped.
C3_DefFileContents ==
    (last.op = "link" /\ last.result.def_file.written) =>
        LET lines == last.result.def_file.contents
            symbols == last.args.export_symbols.val
        IN  /\ Len(lines) = 2 + Len(symbols)
            /\ SubSeq(lines[1], 1, Len(LIBRARY)) = LIBRARY
            /\ IsLastComponent(SubSeq(lines[1], Len(LIBRARY) + 1, Len(lines[1])),
                               last.args.output_filename)
            /\ lines[2] = EXPORTS
            /\ \A i \in 1..Len(symbols) : lines[2 + i] = symbols[i]

\* a def-file was generated for mylib.dll with the exports foo, bar
C3_Witness ==
    /\ last.op = "link"
    /\ last.result.def_file.written
    /\ last.result.def_file.contents =
        <<<<"L", "I", "B", "R", "A", "R", "Y", " ", "m", "y", "l", "i", "b", ".", "d", "l", "l">>,
          <<"E", "X", "P", "O", "R", "T", "S">>, <<"f", "o", "o">>, <<"b", "a", "r">>>>

\* ------------------------------------------------------------------ C4
\* C4: link generates a def-file exactly when export symbols are given
\* (not None) and the target is no executable or the linker is 'gcc'; it
\* is then named after the output's base name, ".def" for the extension,
\* in the first object's directory, and is the last object handed on after
\* the caller's; otherwise the caller's objects are handed on as they are;
\* the underlying link never gets export symbols.
C4_DefFileIffExportsRequested ==
    last.op = "link" =>
        LET a == last.args
            r == last.result
            wanted == /\ a.export_symbols.some
                      /\ a.target_desc # EXECUTABLE \/ adapter.linker_dll = <<"gcc">>
        IN  /\ r.def_file.written <=> wanted
            /\ r.def_file.written =>
                /\ r.def_file.name = DefFileName(os_path, a.objects.val, a.output_filename)
                /\ r.passed.objects = Append(OrEmpty(a.objects), r.def_file.name)
            /\ (r.passed.called /\ ~r.def_file.written) =>
                    r.passed.objects = OrEmpty(a.objects)
            /\ r.passed.called => r.passed.export_symbols = None

\* ------------------------------------------------------------------ C7
\* C7: the pre-link arguments handed to UnixCCompiler.link are the caller's
\* extra_preargs followed by one "-s" when debug is false, whatever the
\* target and the export symbols, and the caller's extra_preargs alone
\* when debug is true.
C7_StripUnlessDebug ==
    (last.op = "link" /\ last.result.passed.called) =>
        LET given == OrEmpty(last.args.extra_preargs)
            handed == last.result.passed.extra_preargs
        IN  /\ ~last.args.debug => handed = given \o <<"-s">>
            /\ last.args.debug => handed = given
            /\ last.result.command.spawned => last.result.command.preargs = handed

\* an executable was linked without debug and "-s" followed the caller's
\* argument
C7_Witness ==
    /\ last.op = "link"
    /\ ~last.args.debug
    /\ last.args.target_desc = EXECUTABLE
    /\ last.args.export_symbols.some
    /\ last.result.passed.called
    /\ last.result.passed.extra_preargs = <<"-v", "-s">>

\* ------------------------------------------------------------------ C5
CygwinTargets == {DumpOutput(<<"x", "8", "6", "_", "6", "4", "-", "p", "c", "-", "c", "y", "g", "w", "i", "n", "\n">>)}
OtherTargets == {DumpOutput(<<"x", "8", "6", "_", "6", "4", "-", "w", "6", "4", "-", "m", "i", "n", "g", "w", "3", "2", "\n">>), DumpOutput(<<"c", "y", "g", "w", "i", "n", "-", "n", "o", "n", "e", "-", "e", "l", "f", "\n">>)}

CommandLines(ex) ==
    {ex.compiler, ex.compiler_so, ex.compiler_cxx, ex.linker_exe, ex.linker_so}

HasWord(line, word) == \E i \in 1..Len(line) : line[i] = word

\* what the CygwinCCompiler constructor, which runs first, raises: what
\* escapes check_config_h, else get_msvcr's ValueError
InheritedFailure ==
    LET unreadable == /\ ~Contains(sys_version, GCC)
                      /\ ~Contains(sys_version, Clang)
                      /\ last.read.kind = "UnicodeDecodeError"
    IN  IF unreadable THEN "UnicodeDecodeError"
        ELSE IF sys_version = MscVersion(2000) THEN "ValueError"
        ELSE "-"

\* C5 as stated: Mingw32CCompiler() fails with CCompilerError whenever the
\* compiler reports a target ending in 'cygwin', succeeds whenever it
\* reports another target, and after success no configured command line
\* has the word -mcygwin.
C5_MingwRejectsCygwinOnly ==
    (last.op = "__init__" /\ last.class = "Mingw32CCompiler") =>
        /\ last.dump \in CygwinTargets => last.raised = "CCompilerError"
        /\ last.dump \in OtherTargets =>
            /\ last.raised = "-"
            /\ \A line \in CommandLines(last.made.executables) :
                    ~HasWord(line, "-mcygwin")

\* C5 as amended: the inherited constructor runs first and its failure is
\* the constructor's; when it succeeds, a Cygwin target is a CCompilerError
\* and any other target a success, after which each command line is CC or
\* CXX as the environment gives it followed by flags without -mcygwin.
C5_MingwRejectsCygwinAfterInherited ==
    (last.op = "__init__" /\ last.class = "Mingw32CCompiler"
        /\ last.dump \in CygwinTargets \cup OtherTargets) =>
        LET cc == IF last.environ.CC.some THEN last.environ.CC.val ELSE <<"gcc">>
            cxx == IF last.environ.CXX.some THEN last.environ.CXX.val ELSE <<"g++">>
        IN  /\ InheritedFailure # "-" => last.raised = InheritedFailure
            /\ (InheritedFailure = "-" /\ last.dump \in CygwinTargets)
                    => last.raised = "CCompilerError"
            /\ (InheritedFailure = "-" /\ last.dump \in OtherTargets) =>
                /\ last.raised = "-"
                /\ adapter = last.made
                /\ last.made.executables =
                    [compiler |-> cc \o <<"-O", "-Wall">>,
                     compiler_so |-> cc \o <<"-mdll", "-O", "-Wall">>,
                     compiler_cxx |-> cxx \o <<"-O", "-Wall">>,
                     linker_exe |-> cc,
                     linker_so |-> cc \o <<"-shared">>]

\* Mingw32CCompiler() was refused for a compiler that reports a Cygwin
\* target
C5_Witness ==
    /\ last.op = "__init__"
    /\ last.class = "Mingw32CCompiler"
    /\ last.dump \in CygwinTargets
    /\ last.raised = "CCompilerError"

\* ------------------------------------------------------------------ C6
\* C6: a link call with runtime_library_dirs never crashes and never
\* embeds a path silently: the request is reported, by a warning on
\* CygwinCCompiler and by a warning and then DistutilsPlatformError on
\* Mingw32CCompiler, and no runtime-search-path option reaches the linker.
C6_RuntimeDirsAlwaysReported ==
    (last.op = "link" /\ OrEmpty(last.args.runtime_library_dirs) # <<>>) =>
        LET r == last.result
        IN  /\ r.raised \in {"-", "LinkError", "DistutilsPlatformError"}
            /\ r.warnings # <<>> /\ r.warnings[1] = _runtime_library_dirs_msg
            /\ adapter.compiler_type = "mingw32" => r.raised = "DistutilsPlatformError"
            /\ r.command.runtime_opts = <<>>

\* ------------------------------------------------------------------ C9
\* C9: check_config_h never raises and returns one of the three statuses:
\* ok when sys.version mentions GCC or Clang, else ok or not ok as the
\* header mentions __GNUC__ or not, and uncertain for every failure to
\* read the header; a constructor is never stopped by it and warns when
\* the status is not ok.
C9_DiagnosticNeverRaises ==
    LET compiled_by_gcc == Contains(sys_version, GCC) \/ Contains(sys_version, Clang)
    IN  /\ last.op = "check_config_h" =>
            /\ last.result.raised = "-"
            /\ last.result.status \in {CONFIG_H_OK, CONFIG_H_NOTOK, CONFIG_H_UNCERTAIN}
            /\ compiled_by_gcc => last.result.status = CONFIG_H_OK
            /\ (~compiled_by_gcc /\ last.read = ReadText(HeaderWithGnuc))
                    => last.result.status = CONFIG_H_OK
            /\ (~compiled_by_gcc /\ last.read = ReadText(HeaderWithoutGnuc))
                    => last.result.status = CONFIG_H_NOTOK
            /\ (~compiled_by_gcc /\ last.read.kind # "text")
                    => last.result.status = CONFIG_H_UNCERTAIN
        /\ last.op = "__init__" =>
            /\ last.raised \notin {"OSError", "UnicodeDecodeError"}
            /\ (~compiled_by_gcc /\ last.read # ReadText(HeaderWithGnuc))
                    => (last.warnings # <<>> /\ last.warnings[1] = PyconfigWarning)

\* ------------------------------------------------------------------ C10
FOO_RC == <<"F", "O", "O", ".", "R", "C">>
foo_rc == <<"f", "o", "o", ".", "r", "c">>

StartsWith(s, p) == Len(p) <= Len(s) /\ SubSeq(s, 1, Len(p)) = p

\* the output path starts with the output directory and the source's
\* directories and base name, written as the caller wrote them
KeepsCase(path, output_dir, strip_dir, src_name) ==
    LET base == _make_relative(os_path, splitext(os_path, src_name)[1])
        kept == IF strip_dir THEN basename(os_path, base) ELSE base
    IN  StartsWith(path, join(os_path, output_dir, kept))

IsUpper(c) == \E i \in 1..Len(UpperLetters) : UpperLetters[i] = c

====
